---- MODULE Spec2Model ----
(***************************************************************************)
(* Model of package metaextractor (src/metaextractor.go): the Extract      *)
(* operation of a MetaExtractor, step by step, with the file system, TrID  *)
(* and ExifTool as the environment.                                        *)
(*                                                                         *)
(* Strings are sequences of one-character strings, so that Base, Ext,      *)
(* ToLower, Contains, ReplaceAll and Split are computed, not assumed.      *)
(* An error value is the sequence of its layers, outermost first (the      *)
(* chain errors.Unwrap walks); each layer is the sequence of the parts of  *)
(* its message.  The nil error is the empty sequence.                      *)
(***************************************************************************)
EXTENDS Integers, Sequences, FiniteSets, TLC

(***************************************************************************)
(* Bounds of the model.                                                    *)
(***************************************************************************)
\* Number of goroutines that call Extract on the one instance.
NumCallers == 2
\* Options.TridMatches ranges over -1 .. MaxOptMatches.
MaxOptMatches == 2

\* The default of NewMetaExtractor for TridMatches <= 0.
DefaultTridMatches == 5

Callers == 1..NumCallers

(***************************************************************************)
(* String helpers of the Go standard library, as the code uses them.       *)
(***************************************************************************)
UpperChars == <<"A","B","C","D","E","F","G","H","I","J","K","L","M","N","O","P","Q","R","S","T","U","V","W","X","Y","Z">>
LowerChars == <<"a","b","c","d","e","f","g","h","i","j","k","l","m","n","o","p","q","r","s","t","u","v","w","x","y","z">>

LowerChar(ch) ==
    IF \E i \in 1..Len(UpperChars) : UpperChars[i] = ch
    THEN LowerChars[CHOOSE i \in 1..Len(UpperChars) : UpperChars[i] = ch]
    ELSE ch

\* strings.ToLower
ToLower(s) == [i \in 1..Len(s) |-> LowerChar(s[i])]

\* strings.Contains(s, ch) for a one-character ch
Contains(s, ch) == \E i \in 1..Len(s) : s[i] = ch

\* strings.ReplaceAll(s, ch, "") for a one-character ch
RECURSIVE RemoveAll(_, _)
RemoveAll(s, ch) ==
    IF s = <<>> THEN <<>>
    ELSE IF Head(s) = ch THEN RemoveAll(Tail(s), ch)
    ELSE <<Head(s)>> \o RemoveAll(Tail(s), ch)

\* strings.Split(s, ch) for a one-character ch: always at least one element
RECURSIVE Split(_, _)
Split(s, ch) ==
    IF ~Contains(s, ch) THEN <<s>>
    ELSE LET i == CHOOSE k \in 1..Len(s) : s[k] = ch /\ \A j \in 1..(k-1) : s[j] # ch
         IN  <<SubSeq(s, 1, i - 1)>> \o Split(SubSeq(s, i + 1, Len(s)), ch)

\* Index of the last path separator of s, 0 if none.
LastSlash(s) ==
    IF Contains(s, "/") THEN CHOOSE k \in 1..Len(s) : s[k] = "/" /\ \A j \in (k+1)..Len(s) : s[j] # "/"
    ELSE 0

RECURSIVE TrimTrailingSlashes(_)
TrimTrailingSlashes(s) ==
    IF s # <<>> /\ s[Len(s)] = "/" THEN TrimTrailingSlashes(SubSeq(s, 1, Len(s) - 1))
    ELSE s

\* filepath.Base: the last element of the path; "." for the empty path and
\* "/" for a path of separators only.
Base(path) ==
    IF path = <<>> THEN <<".">>
    ELSE LET t == TrimTrailingSlashes(path)
             b == SubSeq(t, LastSlash(t) + 1, Len(t))
         IN  IF b = <<>> THEN <<"/">> ELSE b

\* filepath.Ext: the suffix from the last "." of the last element of the
\* path, the empty string if that element holds no ".".
Ext(path) ==
    LET from == LastSlash(path) + 1
        dots == {k \in from..Len(path) : path[k] = "."}
    IN  IF dots = {} THEN <<>>
        ELSE SubSeq(path, CHOOSE k \in dots : \A j \in dots : j <= k, Len(path))

(***************************************************************************)
(* Error values.                                                           *)
(***************************************************************************)
Nil == <<>>

\* errors.New(text)
ErrorsNew(text) == << <<text>> >>

ErrNoFileSpecified == ErrorsNew("no file specified")
ErrFileNotFound == ErrorsNew("file not found")
ErrNoMetadataExtracted == ErrorsNew("no metadata extracted")

\* errors.Is(e, target): e or an error it wraps is target
ErrorsIs(e, target) == \E i \in 1..Len(e) : SubSeq(e, i, Len(e)) = target

\* fmt.Errorf(prefix + ": %v", e): a new error that carries e's text and
\* does not wrap e
Errorf(prefix, e) == << <<prefix>> \o e[1] >>

\* Errors the environment produces.
ENOENT == ErrorsNew("no such file or directory")
EACCES == ErrorsNew("permission denied")
\* os.Stat and times.Stat return a *PathError wrapping the errno
PathError(errno) == << <<"stat">> \o errno[1] >> \o errno
ErrTridFailed == ErrorsNew("trid: exit status 1")
ErrTridTimeout == ErrorsNew("trid: context deadline exceeded")
ErrExifStart == ErrorsNew("exec: exiftool: executable file not found")
ErrExifFile == ErrorsNew("exiftool: file error")

\* os.IsNotExist(e)
OsIsNotExist(e) == ErrorsIs(e, ENOENT)

(***************************************************************************)
(* Data types.                                                             *)
(***************************************************************************)
\* A Go map: nil, or a set of <<key, value>> pairs.
NilMap == [isNil |-> TRUE, kv |-> {}]
MakeMap(pairs) == [isNil |-> FALSE, kv |-> pairs]

\* The zero time.Time is 0.
ZeroFileTime == [ModTime |-> 0, AccessTime |-> 0, ChangeTime |-> 0, BirthTime |-> 0]

\* var metadata Metadata
ZeroMetadata ==
    [Name |-> <<>>, Extension |-> <<>>, ExtMismatch |-> FALSE, Size |-> 0,
     Time |-> ZeroFileTime, Types |-> <<>>, Exif |-> NilMap]

\* trid.FileType
FileType(type, mime, extension) == [Type |-> type, Mime |-> mime, Extension |-> extension]

(***************************************************************************)
(* NewMetaExtractor.                                                       *)
(***************************************************************************)
NewMetaExtractor(opts) ==
    [trid |-> [Cmd |-> opts.TridPath, Definitions |-> opts.TridDefs, Timeout |-> opts.TridTimeout],
     tridMatches |-> IF opts.TridMatches <= 0 THEN DefaultTridMatches ELSE opts.TridMatches,
     exifToolOpts |-> IF opts.ExifToolPath # ""
                      THEN << <<"ExtractAllBinaryMetadata">>, <<"ExtractEmbedded">>, <<"SetExiftoolBinaryPath", opts.ExifToolPath>> >>
                      ELSE << <<"ExtractAllBinaryMetadata">>, <<"ExtractEmbedded">> >>]

(***************************************************************************)
(* The pure parts of Extract.                                              *)
(***************************************************************************)
\* if filePath == ""
NoFileSpecifiedNever(filePath) == FALSE
NoFileSpecified(filePath) == filePath = <<>>

\* The error Extract returns for a failed os.Stat.
StatErrorRaw(e) == e
StatError(e) == IF OsIsNotExist(e) THEN ErrFileNotFound ELSE e

\* The fields set after os.Stat succeeded.
WithStat(md, filePath, size) ==
    [md EXCEPT !.Name = Base(filePath), !.Extension = ToLower(Ext(filePath)), !.Size = size]

\* getFileTimes on a successful times.Stat t
FileTimeOf(t) ==
    [AccessTime |-> t.atime, ModTime |-> t.mtime,
     ChangeTime |-> IF t.hasChange THEN t.ctime ELSE 0,
     BirthTime |-> IF t.hasBirth THEN t.btime ELSE 0]

\* for _, e := range es { if "."+e == metadata.Extension { false; break } }
RECURSIVE AlternativesLoop(_, _, _)
AlternativesLoop(es, i, extension) ==
    IF i > Len(es) THEN TRUE
    ELSE IF <<".">> \o es[i] = extension THEN FALSE
    ELSE AlternativesLoop(es, i + 1, extension)

\* The branch for a matched extension that holds "/", without the removal of ".".
SlashMismatchKeepDots(extension, field) == AlternativesLoop(Split(field, "/"), 1, extension)
\* The branch for a matched extension that holds "/".
SlashMismatch(extension, field) ==
    AlternativesLoop(Split(RemoveAll(field, "."), "/"), 1, extension)

\* The direct comparison, with the leading "." of the extension ignored.
PlainMismatchNoDot(extension, field) == RemoveAll(extension, ".") # RemoveAll(field, ".")
\* else if metadata.Extension != fileTypes[0].Extension
PlainMismatch(extension, field) == extension # field

\* ExtMismatch with a default of true for an empty candidate list.
ExtMismatchOfEager(extension, fileTypes) ==
    IF Len(fileTypes) > 0
    THEN IF Contains(fileTypes[1].Extension, "/")
         THEN SlashMismatch(extension, fileTypes[1].Extension)
         ELSE PlainMismatch(extension, fileTypes[1].Extension)
    ELSE extension # <<>>
\* The value of metadata.ExtMismatch after a successful tridAnalysis.
ExtMismatchOf(extension, fileTypes) ==
    IF Len(fileTypes) > 0
    THEN IF Contains(fileTypes[1].Extension, "/")
         THEN SlashMismatch(extension, fileTypes[1].Extension)
         ELSE PlainMismatch(extension, fileTypes[1].Extension)
    ELSE FALSE

\* The metadata after tridAnalysis, with Types kept from a failed scan too.
WithTridAlways(md, fileTypes, e) ==
    [md EXCEPT !.Types = fileTypes, !.ExtMismatch = ExtMismatchOf(md.Extension, fileTypes)]
\* The metadata after tridAnalysis returned (fileTypes, e).
WithTrid(md, fileTypes, e) ==
    IF e = Nil
    THEN [md EXCEPT !.Types = fileTypes, !.ExtMismatch = ExtMismatchOf(md.Extension, fileTypes)]
    ELSE md

\* extractExifData after et.ExtractMetadata returned fileInfos: (data, err)
ExifReturn(fileInfos) ==
    IF Len(fileInfos) = 0 THEN [data |-> NilMap, err |-> ErrNoMetadataExtracted]
    ELSE IF fileInfos[1].Err # Nil
         THEN [data |-> NilMap, err |-> Errorf("error extracting metadata", fileInfos[1].Err)]
         ELSE [data |-> fileInfos[1].Fields, err |-> Nil]

\* The end of Extract with every error of extractExifData returned.
AfterExifStrict(md, ret) ==
    IF ret.err = Nil THEN [metadata |-> [md EXCEPT !.Exif = ret.data], err |-> Nil]
    ELSE [metadata |-> md, err |-> ret.err]
\* The end of Extract, after extractExifData returned ret: (metadata, err)
AfterExif(md, ret) ==
    IF ret.err = Nil THEN [metadata |-> [md EXCEPT !.Exif = ret.data], err |-> Nil]
    ELSE IF ErrorsIs(ret.err, ErrNoMetadataExtracted)
         THEN [metadata |-> [md EXCEPT !.Exif = MakeMap({})], err |-> Nil]
         ELSE [metadata |-> md, err |-> ret.err]

\* The session with Close called on the success path only.
SessionAfterReturnOnSuccess(et, ret) == IF ret.err = Nil THEN "closed" ELSE et
\* defer et.Close(): the session when extractExifData returns ret
SessionAfterReturn(et, ret) == "closed"

(***************************************************************************)
(* Control flow of Extract: the step that follows `step`, which ended with *)
(* the error e.                                                            *)
(***************************************************************************)
\* The control flow without the early return after a failed tridAnalysis.
GotoNoShortCircuit(step, e) ==
    CASE step = "begin" -> IF e = Nil THEN "stat" ELSE "done"
      [] step = "stat" -> IF e = Nil THEN "times" ELSE "done"
      [] step = "times" -> IF e = Nil THEN "trid" ELSE "done"
      [] step = "trid" -> "exifNew"
      [] step = "exifNew" -> IF e = Nil THEN "exifExtract" ELSE "done"
      [] step = "exifExtract" -> "exifReturn"
      [] OTHER -> "done"
Goto(step, e) ==
    CASE step = "begin" -> IF e = Nil THEN "stat" ELSE "done"
      [] step = "stat" -> IF e = Nil THEN "times" ELSE "done"
      [] step = "times" -> IF e = Nil THEN "trid" ELSE "done"
      [] step = "trid" -> IF e = Nil THEN "exifNew" ELSE "done"
      [] step = "exifNew" -> IF e = Nil THEN "exifExtract" ELSE "done"
      [] step = "exifExtract" -> "exifReturn"
      [] OTHER -> "done"

\* One metadata variable for all calls, as a field of the instance would be.
LocalOfShared(c) == 1
\* `var metadata Metadata` is a local of the call: each call has its own.
LocalOf(c) == c

(***************************************************************************)
(* Inputs: file names, and what the file system and the two tools answer.  *)
(***************************************************************************)
SampleDoc == <<"s","a","m","p","l","e",".","d","o","c">>
SampleTxt == <<"s","a","m","p","l","e",".","t","x","t">>
PhotoJpeg == <<"p","h","o","t","o",".","j","p","e","g">>
PhotoPng == <<"p","h","o","t","o",".","p","n","g">>
EmptyFile == <<"t","e","s","t","d","a","t","a","/","e","m","p","t","y">>
UpperDoc == <<"d","i","r","/","S","a","m","p","l","e",".","D","O","C">>
DotDir == <<"v","1",".","2","/","p","h","o","t","o">>

FtDoc == FileType("Microsoft Word document", "application/msword", <<"d","o","c">>)
FtDotDoc == FileType("Microsoft Word document", "application/msword", <<".","d","o","c">>)
FtJpg == FileType("JPEG bitmap", "image/jpeg", <<"j","p","g","/","j","p","e","g">>)
FtDotJpg == FileType("JPEG bitmap", "image/jpeg", <<".","j","p","g","/",".","j","p","e","g">>)
FtUpperJpg == FileType("JPEG bitmap", "image/jpeg", <<"J","P","G","/","J","P","E","G">>)
FtPdf == FileType("Adobe Portable Document Format", "application/pdf", <<".","p","d","f">>)
FtNoExt == FileType("Unknown", "application/octet-stream", <<>>)

Paths == {<<>>, SampleDoc, SampleTxt, PhotoJpeg, PhotoPng, EmptyFile, UpperDoc, DotDir}

StatOuts ==
    {[size |-> 1044, err |-> Nil], [size |-> 0, err |-> PathError(ENOENT)],
     [size |-> 0, err |-> PathError(EACCES)]}

TimesOuts ==
    {[t |-> [atime |-> 2, mtime |-> 1, hasChange |-> TRUE, ctime |-> 1, hasBirth |-> TRUE, btime |-> 1], err |-> Nil],
     [t |-> [atime |-> 2, mtime |-> 1, hasChange |-> FALSE, ctime |-> 0, hasBirth |-> FALSE, btime |-> 0], err |-> Nil],
     [t |-> [atime |-> 0, mtime |-> 0, hasChange |-> FALSE, ctime |-> 0, hasBirth |-> FALSE, btime |-> 0], err |-> PathError(ENOENT)]}

ScanOuts ==
    {[types |-> <<>>, err |-> Nil],
     [types |-> <<FtDoc>>, err |-> Nil],
     [types |-> <<FtDotDoc>>, err |-> Nil],
     [types |-> <<FtJpg, FtDotDoc>>, err |-> Nil],
     [types |-> <<FtDotJpg>>, err |-> Nil],
     [types |-> <<FtUpperJpg>>, err |-> Nil],
     [types |-> <<FtPdf, FtDotDoc, FtNoExt>>, err |-> Nil],
     [types |-> <<FtNoExt>>, err |-> Nil],
     [types |-> <<>>, err |-> ErrTridFailed],
     [types |-> <<FtDoc>>, err |-> ErrTridTimeout]}

NewOuts == {Nil, ErrExifStart}

ExtractOuts ==
    {<<>>,
     <<[Fields |-> MakeMap({<<"FileType", "PDF">>}), Err |-> Nil]>>,
     <<[Fields |-> MakeMap({}), Err |-> Nil]>>,
     <<[Fields |-> MakeMap({}), Err |-> ErrExifFile]>>}

OptionsSet ==
    [TridPath : {"trid"}, TridDefs : {"triddefs.trd"}, TridTimeout : {5},
     TridMatches : (-1)..MaxOptMatches, ExifToolPath : {"", "/usr/bin/exiftool"}]

\* Everything the sequential specification draws from.
Rich ==
    [paths |-> Paths, statOuts |-> StatOuts, timesOuts |-> TimesOuts,
     scanOuts |-> ScanOuts, newOuts |-> NewOuts, extractOuts |-> ExtractOuts]

\* A part of it, for the specification of concurrent calls.
Small ==
    [paths |-> {<<>>, SampleDoc, PhotoJpeg},
     statOuts |-> {[size |-> 1044, err |-> Nil], [size |-> 0, err |-> PathError(ENOENT)]},
     timesOuts |-> {[t |-> [atime |-> 2, mtime |-> 1, hasChange |-> TRUE, ctime |-> 1, hasBirth |-> TRUE, btime |-> 1], err |-> Nil]},
     scanOuts |-> {[types |-> <<FtDotDoc>>, err |-> Nil], [types |-> <<FtJpg, FtDotDoc>>, err |-> Nil],
                   [types |-> <<FtDoc>>, err |-> ErrTridTimeout]},
     newOuts |-> NewOuts,
     extractOuts |-> {<<>>, <<[Fields |-> MakeMap({<<"FileType", "PDF">>}), Err |-> Nil]>>,
                      <<[Fields |-> MakeMap({}), Err |-> ErrExifFile]>>}]

(***************************************************************************)
(* State.                                                                  *)
(***************************************************************************)
VARIABLES
    me,        \* the MetaExtractor: trid, tridMatches, exifToolOpts
    pc,        \* per caller: where its call of Extract stands
    filePath,  \* per caller: the argument of its call
    metadata,  \* per local slot: the call's `metadata`
    et,        \* per caller: the session of extractExifData: "nil", "open", "closed"
    exifRet,   \* per caller: what extractExifData is about to return
    result,    \* per caller: the (metadata, err) its call returned
    trace      \* per caller: the external calls of its call, with their answers

vars == <<me, pc, filePath, metadata, et, exifRet, result, trace>>

NoRet == [data |-> NilMap, err |-> Nil]
NoResult == [metadata |-> ZeroMetadata, err |-> Nil]

TypeOK ==
    /\ pc \in [Callers -> {"idle", "stat", "times", "trid", "exifNew", "exifExtract", "exifReturn", "done"}]
    /\ et \in [Callers -> {"nil", "open", "closed"}]
    /\ DOMAIN metadata = Callers
    /\ me.tridMatches > 0

InitWith(optsSet) ==
    /\ me \in {NewMetaExtractor(o) : o \in optsSet}
    /\ pc = [c \in Callers |-> "idle"]
    /\ filePath = [c \in Callers |-> <<>>]
    /\ metadata = [c \in Callers |-> ZeroMetadata]
    /\ et = [c \in Callers |-> "nil"]
    /\ exifRet = [c \in Callers |-> NoRet]
    /\ result = [c \in Callers |-> NoResult]
    /\ trace = [c \in Callers |-> <<>>]

Init == InitWith(OptionsSet)

InitConc == InitWith({o \in OptionsSet : o.TridMatches = 2 /\ o.ExifToolPath = ""})

\* The call returns (md, e).
Returns(c, md, e) == result' = [result EXCEPT ![c] = [metadata |-> md, err |-> e]]

Logged(c, op, out) == trace' = [trace EXCEPT ![c] = Append(@, [op |-> op, out |-> out])]

(***************************************************************************)
(* The steps of Extract(filePath), for caller c drawing from universe U.   *)
(***************************************************************************)
\* Entry: var metadata Metadata; if filePath == "" { return metadata, ErrNoFileSpecified }
ExtractBegin(c, U) ==
    /\ pc[c] = "idle"
    /\ \E path \in U.paths :
        LET e == IF NoFileSpecified(path) THEN ErrNoFileSpecified ELSE Nil IN
        /\ filePath' = [filePath EXCEPT ![c] = path]
        /\ metadata' = [metadata EXCEPT ![LocalOf(c)] = ZeroMetadata]
        /\ trace' = [trace EXCEPT ![c] = <<>>]
        /\ pc' = [pc EXCEPT ![c] = Goto("begin", e)]
        /\ IF e # Nil THEN Returns(c, ZeroMetadata, e) ELSE UNCHANGED result
    /\ UNCHANGED <<me, et, exifRet>>

\* fileInfo, err := os.Stat(filePath) and the assignments of Name, Extension, Size
OsStat(c, U) ==
    /\ pc[c] = "stat"
    /\ \E out \in U.statOuts :
        LET md == metadata[LocalOf(c)] IN
        /\ Logged(c, "os.Stat", out)
        /\ pc' = [pc EXCEPT ![c] = Goto("stat", out.err)]
        /\ IF out.err # Nil
           THEN /\ Returns(c, md, StatError(out.err))
                /\ UNCHANGED metadata
           ELSE /\ metadata' = [metadata EXCEPT ![LocalOf(c)] = WithStat(md, filePath[c], out.size)]
                /\ UNCHANGED result
    /\ UNCHANGED <<me, filePath, et, exifRet>>

\* getFileTimes(filePath)
GetFileTimes(c, U) ==
    /\ pc[c] = "times"
    /\ \E out \in U.timesOuts :
        LET md == metadata[LocalOf(c)] IN
        /\ Logged(c, "times.Stat", out)
        /\ pc' = [pc EXCEPT ![c] = Goto("times", out.err)]
        /\ IF out.err # Nil
           THEN /\ Returns(c, md, out.err)
                /\ UNCHANGED metadata
           ELSE /\ metadata' = [metadata EXCEPT ![LocalOf(c)] = [md EXCEPT !.Time = FileTimeOf(out.t)]]
                /\ UNCHANGED result
    /\ UNCHANGED <<me, filePath, et, exifRet>>

\* me.tridAnalysis(filePath) and the extension check
TridAnalysis(c, U) ==
    /\ pc[c] = "trid"
    /\ \E out \in {o \in U.scanOuts : Len(o.types) <= me.tridMatches} :
        LET md == WithTrid(metadata[LocalOf(c)], out.types, out.err) IN
        /\ Logged(c, "trid.Scan", out)
        /\ pc' = [pc EXCEPT ![c] = Goto("trid", out.err)]
        /\ metadata' = [metadata EXCEPT ![LocalOf(c)] = md]
        /\ IF out.err # Nil THEN Returns(c, md, out.err) ELSE UNCHANGED result
    /\ UNCHANGED <<me, filePath, et, exifRet>>

\* extractExifData: exiftool.NewExiftool(me.exifToolOpts...)
NewExiftool(c, U) ==
    /\ pc[c] = "exifNew"
    /\ \E e \in U.newOuts :
        /\ Logged(c, "exiftool.NewExiftool", [opts |-> me.exifToolOpts, err |-> e])
        /\ pc' = [pc EXCEPT ![c] = Goto("exifNew", e)]
        /\ IF e # Nil
           THEN LET r == AfterExif(metadata[LocalOf(c)], [data |-> NilMap, err |-> Errorf("error initializing ExifTool", e)]) IN
                /\ metadata' = [metadata EXCEPT ![LocalOf(c)] = r.metadata]
                /\ Returns(c, r.metadata, r.err)
                /\ UNCHANGED et
           ELSE /\ et' = [et EXCEPT ![c] = "open"]
                /\ UNCHANGED <<metadata, result>>
    /\ UNCHANGED <<me, filePath, exifRet>>

\* extractExifData: et.ExtractMetadata(filePath) and the choice of what to return
ExtractMetadata(c, U) ==
    /\ pc[c] = "exifExtract"
    /\ \E fileInfos \in U.extractOuts :
        /\ Logged(c, "et.ExtractMetadata", [fileInfos |-> fileInfos])
        /\ exifRet' = [exifRet EXCEPT ![c] = ExifReturn(fileInfos)]
        /\ pc' = [pc EXCEPT ![c] = Goto("exifExtract", Nil)]
    /\ UNCHANGED <<me, filePath, metadata, et, result>>

\* extractExifData returns: the deferred et.Close() runs, then the end of Extract
ExifReturns(c) ==
    /\ pc[c] = "exifReturn"
    /\ LET r == AfterExif(metadata[LocalOf(c)], exifRet[c])
           s == SessionAfterReturn(et[c], exifRet[c])
       IN  /\ et' = [et EXCEPT ![c] = s]
           /\ trace' = IF s = "closed" THEN [trace EXCEPT ![c] = Append(@, [op |-> "et.Close", out |-> [err |-> Nil]])]
                       ELSE trace
           /\ metadata' = [metadata EXCEPT ![LocalOf(c)] = r.metadata]
           /\ Returns(c, r.metadata, r.err)
           /\ pc' = [pc EXCEPT ![c] = Goto("exifReturn", r.err)]
    /\ UNCHANGED <<me, filePath, exifRet>>

\* The caller has its result; its next call starts from fresh locals.
CallerContinues(c) ==
    /\ pc[c] = "done"
    /\ pc' = [pc EXCEPT ![c] = "idle"]
    /\ filePath' = [filePath EXCEPT ![c] = <<>>]
    /\ metadata' = [metadata EXCEPT ![LocalOf(c)] = ZeroMetadata]
    /\ et' = [et EXCEPT ![c] = "nil"]
    /\ exifRet' = [exifRet EXCEPT ![c] = NoRet]
    /\ result' = [result EXCEPT ![c] = NoResult]
    /\ trace' = [trace EXCEPT ![c] = <<>>]
    /\ UNCHANGED me

Step(c, U) ==
    \/ ExtractBegin(c, U)
    \/ OsStat(c, U)
    \/ GetFileTimes(c, U)
    \/ TridAnalysis(c, U)
    \/ NewExiftool(c, U)
    \/ ExtractMetadata(c, U)
    \/ ExifReturns(c)
    \/ CallerContinues(c)

\* One caller at a time, every input.
Next == Step(1, Rich)

Spec == Init /\ [][Next]_vars

\* NumCallers goroutines call Extract on the same instance, interleaved.
NextConc == \E c \in Callers : Step(c, Small)

SpecConc == InitConc /\ [][NextConc]_vars

(***************************************************************************)
(* What a returned call saw, read from its trace.                          *)
(***************************************************************************)
Done(c) == pc[c] = "done"

\* Position of op in the trace of c, 0 if the call did not make it.
At(c, op) ==
    IF \E i \in 1..Len(trace[c]) : trace[c][i].op = op
    THEN CHOOSE i \in 1..Len(trace[c]) : trace[c][i].op = op
    ELSE 0

Made(c, op) == At(c, op) > 0
OutOf(c, op) == trace[c][At(c, op)].out
TimesMade(c, op) == Cardinality({i \in 1..Len(trace[c]) : trace[c][i].op = op})

StatOk(c) == Made(c, "os.Stat") /\ OutOf(c, "os.Stat").err = Nil
TimesOk(c) == Made(c, "times.Stat") /\ OutOf(c, "times.Stat").err = Nil
TridOk(c) == Made(c, "trid.Scan") /\ OutOf(c, "trid.Scan").err = Nil
TridFailed(c) == Made(c, "trid.Scan") /\ OutOf(c, "trid.Scan").err # Nil
NewFailed(c) == Made(c, "exiftool.NewExiftool") /\ OutOf(c, "exiftool.NewExiftool").err # Nil
NothingExtracted(c) == Made(c, "et.ExtractMetadata") /\ OutOf(c, "et.ExtractMetadata").fileInfos = <<>>
FileFailed(c) ==
    /\ Made(c, "et.ExtractMetadata")
    /\ OutOf(c, "et.ExtractMetadata").fileInfos # <<>>
    /\ OutOf(c, "et.ExtractMetadata").fileInfos[1].Err # Nil

\* The candidates tridAnalysis returned, and the matched extension of the top one.
Candidates(c) == OutOf(c, "trid.Scan").types
HasTop(c) == TridOk(c) /\ Candidates(c) # <<>>
TopField(c) == Candidates(c)[1].Extension

\* The lower-cased extension of the file of the call.
LowerExt(c) == ToLower(Ext(filePath[c]))

\* The "/"-separated alternatives of a field: its maximal runs without "/".
Alternatives(f) ==
    {SubSeq(f, i, j) : <<i, j>> \in
        {<<i, j>> \in (1..(Len(f) + 1)) \X (0..Len(f)) :
            /\ i <= j + 1
            /\ (i = 1 \/ f[i - 1] = "/")
            /\ (j = Len(f) \/ f[j + 1] = "/")
            /\ \A k \in i..j : f[k] # "/"}}

\* s without its "." characters, by position.
WithoutDots(s) ==
    LET keep == {k \in 1..Len(s) : s[k] # "."}
        nth(n) == CHOOSE k \in keep : Cardinality({j \in keep : j < k}) = n - 1
    IN  [n \in 1..Cardinality(keep) |-> s[nth(n)]]

\* Some alternative of field f, without its dots and after one ".", is ext.
SomeAlternativeIs(f, ext) == \E a \in Alternatives(f) : <<".">> \o WithoutDots(a) = ext

Doc == <<"d","o","c">>
DotDoc == <<".","d","o","c">>
JpgJpeg == <<"j","p","g","/","j","p","e","g">>

(***************************************************************************)
(* C1                                                                      *)
(***************************************************************************)
\* C1, as stated: with a top candidate whose matched extension is "doc",
\* sample.doc gives ExtMismatch = false and sample.txt gives true; and for a
\* matched extension without "/", ExtMismatch is true exactly when the
\* lower-cased extension of the file differs from it.
C1_AsStated ==
    \A c \in Callers : (Done(c) /\ HasTop(c) /\ ~Contains(TopField(c), "/")) =>
        /\ (TopField(c) = Doc /\ filePath[c] = SampleDoc) => ~result[c].metadata.ExtMismatch
        /\ (TopField(c) = Doc /\ filePath[c] = SampleTxt) => result[c].metadata.ExtMismatch
        /\ result[c].metadata.ExtMismatch <=> (LowerExt(c) # TopField(c))

\* C1, amended: the extension of the file carries its leading ".", so it is
\* the matched extension ".doc" for which sample.doc gives false and
\* sample.txt true; with the matched extension "doc" both give true. For a
\* matched extension without "/", ExtMismatch is true exactly when the
\* lower-cased extension of the file, "." included, differs from it.
C1_PlainMismatch ==
    \A c \in Callers : (Done(c) /\ HasTop(c) /\ ~Contains(TopField(c), "/")) =>
        /\ (TopField(c) = DotDoc /\ filePath[c] = SampleDoc) => ~result[c].metadata.ExtMismatch
        /\ (TopField(c) = DotDoc /\ filePath[c] = SampleTxt) => result[c].metadata.ExtMismatch
        /\ (TopField(c) = Doc /\ filePath[c] \in {SampleDoc, SampleTxt}) => result[c].metadata.ExtMismatch
        /\ result[c].metadata.ExtMismatch <=> (LowerExt(c) # TopField(c))

C1_Witness ==
    \E c \in Callers :
        /\ Done(c) /\ HasTop(c)
        /\ TopField(c) = DotDoc /\ filePath[c] = SampleDoc
        /\ ~result[c].metadata.ExtMismatch

(***************************************************************************)
(* C2                                                                      *)
(***************************************************************************)
\* C2: for a matched extension that holds "/", ExtMismatch is false exactly
\* when some "/"-separated alternative, with its "." removed and one "."
\* put before it, is the lower-cased extension of the file; for "jpg/jpeg",
\* photo.jpeg gives false and photo.png gives true.
C2_SlashMismatch ==
    \A c \in Callers : (Done(c) /\ HasTop(c) /\ Contains(TopField(c), "/")) =>
        /\ ~result[c].metadata.ExtMismatch <=> SomeAlternativeIs(TopField(c), LowerExt(c))
        /\ (TopField(c) = JpgJpeg /\ filePath[c] = PhotoJpeg) => ~result[c].metadata.ExtMismatch
        /\ (TopField(c) = JpgJpeg /\ filePath[c] = PhotoPng) => result[c].metadata.ExtMismatch

C2_Witness ==
    \E c \in Callers :
        /\ Done(c) /\ HasTop(c)
        /\ TopField(c) = FtDotJpg.Extension /\ filePath[c] = PhotoJpeg
        /\ ~result[c].metadata.ExtMismatch

(***************************************************************************)
(* C3                                                                      *)
(***************************************************************************)
\* C3: a call with the empty path returns ErrNoFileSpecified and the zero
\* Metadata, and makes no stat and no call of either tool.
C3_EmptyPath ==
    \A c \in Callers : (Done(c) /\ filePath[c] = <<>>) =>
        /\ result[c].err = ErrNoFileSpecified
        /\ result[c].metadata = ZeroMetadata
        /\ result[c].metadata.Exif.isNil
        /\ trace[c] = <<>>

C3_Witness == \E c \in Callers : Done(c) /\ filePath[c] = <<>> /\ result[c].err # Nil

StatFieldsSet(c) ==
    /\ result[c].metadata.Name = Base(filePath[c])
    /\ result[c].metadata.Extension = LowerExt(c)
    /\ result[c].metadata.Size = OutOf(c, "os.Stat").size
    /\ result[c].metadata.Time = FileTimeOf(OutOf(c, "times.Stat").t)

\* ExtMismatch as the candidates and the extension of the file determine it.
MismatchExpected(ext, types) ==
    /\ types # <<>>
    /\ IF Contains(types[1].Extension, "/") THEN ~SomeAlternativeIs(types[1].Extension, ext)
       ELSE ext # types[1].Extension

\* C5: a call whose type identification failed returns a non-nil error and
\* a Metadata with the fields of the stat step, no Types, ExtMismatch false
\* and Exif unset; a call whose tag extraction failed (other than by
\* "nothing extracted") returns a non-nil error and a Metadata with the
\* fields of the stat step, the Types and ExtMismatch of the type
\* identification, and Exif unset.
C5_PartialResults ==
    \A c \in Callers : Done(c) =>
        /\ TridFailed(c) =>
            /\ result[c].err # Nil
            /\ StatFieldsSet(c)
            /\ result[c].metadata.Types = <<>>
            /\ ~result[c].metadata.ExtMismatch
            /\ result[c].metadata.Exif = NilMap
        /\ (NewFailed(c) \/ FileFailed(c)) =>
            /\ result[c].err # Nil
            /\ StatFieldsSet(c)
            /\ result[c].metadata.Types = Candidates(c)
            /\ result[c].metadata.ExtMismatch = MismatchExpected(LowerExt(c), Candidates(c))
            /\ result[c].metadata.Exif = NilMap

C5_Witness ==
    \E c \in Callers :
        /\ Done(c) /\ TridFailed(c)
        /\ Candidates(c) # <<>>
        /\ result[c].metadata.Name = SampleDoc
        /\ result[c].metadata.Size = 1044
        /\ result[c].metadata.Types = <<>>

(***************************************************************************)
(* C6                                                                      *)
(***************************************************************************)
\* C6: when ExifTool returns no per-file result the call returns a nil
\* error and an Exif map that is empty and not nil; and no call returns
\* ErrNoMetadataExtracted.
C6_NothingExtracted ==
    \A c \in Callers : Done(c) =>
        /\ NothingExtracted(c) =>
            /\ result[c].err = Nil
            /\ ~result[c].metadata.Exif.isNil
            /\ result[c].metadata.Exif.kv = {}
        /\ ~ErrorsIs(result[c].err, ErrNoMetadataExtracted)

C6_Witness ==
    \E c \in Callers :
        /\ Done(c) /\ NothingExtracted(c)
        /\ exifRet[c].err = ErrNoMetadataExtracted
        /\ result[c].err = Nil

(***************************************************************************)
(* C7                                                                      *)
(***************************************************************************)
\* C7: in every Metadata returned, with or without an error, ExtMismatch
\* true implies Types not empty; with no candidates, or with a type
\* identification that did not complete, ExtMismatch is false whatever the
\* extension; and ExtMismatch is determined by Extension and the matched
\* extension of Types[0] alone.
C7_MismatchDerived ==
    \A c \in Callers : Done(c) =>
        /\ result[c].metadata.ExtMismatch => result[c].metadata.Types # <<>>
        /\ (~TridOk(c) \/ Candidates(c) = <<>>) => ~result[c].metadata.ExtMismatch
        /\ result[c].metadata.ExtMismatch
             = MismatchExpected(result[c].metadata.Extension, result[c].metadata.Types)

C7_Witness ==
    \E c \in Callers :
        /\ Done(c) /\ TridOk(c) /\ Candidates(c) = <<>>
        /\ result[c].metadata.Extension = DotDoc
        /\ ~result[c].metadata.ExtMismatch

(***************************************************************************)
(* C8                                                                      *)
(***************************************************************************)
\* The external calls of Extract, in program order.
CallOrder ==
    <<"os.Stat", "times.Stat", "trid.Scan", "exiftool.NewExiftool", "et.ExtractMetadata", "et.Close">>

\* C8: the external calls of one Extract call are a prefix of stat, type
\* identification, tag extraction, each made at most once; TrID is called
\* only after the stat step succeeded and ExifTool only after TrID
\* succeeded, with the extension check already made.
C8_StepOrder ==
    \A c \in Callers :
        /\ Len(trace[c]) <= Len(CallOrder)
        /\ \A i \in 1..Len(trace[c]) : trace[c][i].op = CallOrder[i]
        /\ \A op \in {CallOrder[i] : i \in 1..Len(CallOrder)} : TimesMade(c, op) <= 1
        /\ Made(c, "trid.Scan") => StatOk(c) /\ TimesOk(c)
        /\ Made(c, "exiftool.NewExiftool") =>
            /\ TridOk(c)
            /\ (pc[c] # "done" => metadata[c].Types = Candidates(c))
            /\ (pc[c] # "done" => metadata[c].ExtMismatch = MismatchExpected(LowerExt(c), Candidates(c)))
        /\ (Done(c) /\ Len(trace[c]) < Len(CallOrder)) => result[c].err # Nil

C8_Witness ==
    \E c \in Callers :
        /\ Done(c) /\ result[c].err = Nil
        /\ [i \in 1..Len(trace[c]) |-> trace[c][i].op] = CallOrder

(***************************************************************************)
(* C9                                                                      *)
(***************************************************************************)
\* C9: a call that has returned has no open ExifTool session: the session
\* it opened is closed, on the success path, the "nothing extracted" path
\* and the per-file error path; a call whose NewExiftool failed has no
\* session at all. A caller that is between calls has none either.
C9_SessionClosed ==
    \A c \in Callers :
        /\ pc[c] \in {"done", "idle"} => et[c] # "open"
        /\ (Done(c) /\ Made(c, "et.ExtractMetadata")) =>
            /\ et[c] = "closed"
            /\ trace[c][Len(trace[c])].op = "et.Close"
        /\ (Done(c) /\ NewFailed(c)) => et[c] = "nil"
        /\ et[c] = "open" => pc[c] \in {"exifExtract", "exifReturn"}

C9_Witness ==
    \E c \in Callers :
        /\ Done(c) /\ FileFailed(c)
        /\ result[c].err # Nil
        /\ et[c] = "closed"

(***************************************************************************)
(* C10                                                                     *)
(***************************************************************************)
\* Extract run alone on path, given the answers tr of its external calls.
ExtractAlone(path, tr) ==
    IF NoFileSpecified(path) THEN [metadata |-> ZeroMetadata, err |-> ErrNoFileSpecified]
    ELSE IF tr[1].out.err # Nil THEN [metadata |-> ZeroMetadata, err |-> StatError(tr[1].out.err)]
    ELSE LET m1 == WithStat(ZeroMetadata, path, tr[1].out.size) IN
    IF tr[2].out.err # Nil THEN [metadata |-> m1, err |-> tr[2].out.err]
    ELSE LET m2 == [m1 EXCEPT !.Time = FileTimeOf(tr[2].out.t)]
             m3 == WithTrid(m2, tr[3].out.types, tr[3].out.err) IN
    IF tr[3].out.err # Nil THEN [metadata |-> m3, err |-> tr[3].out.err]
    ELSE IF tr[4].out.err # Nil
         THEN AfterExif(m3, [data |-> NilMap, err |-> Errorf("error initializing ExifTool", tr[4].out.err)])
    ELSE AfterExif(m3, ExifReturn(tr[5].out.fileInfos))

\* Every returned result is the one of the call run alone on the same answers.
ResultsAsAlone == \A c \in Callers : Done(c) => result[c] = ExtractAlone(filePath[c], trace[c])

\* C10: under any interleaving of the calls of several goroutines on one
\* instance, Extract never changes the instance (trid, tridMatches,
\* exifToolOpts), and each call returns what it returns when run alone with
\* the same answers of the file system and the tools.
C10_CallsIndependent == [][me' = me]_vars /\ []ResultsAsAlone

C10_Witness ==
    \E c, d \in Callers :
        /\ c # d
        /\ Done(c) /\ result[c].err = Nil /\ filePath[c] = PhotoJpeg
        /\ pc[d] = "exifReturn" /\ filePath[d] = SampleDoc
        /\ metadata[d] # result[c].metadata

====
